---- MODULE Spec2Model ----
(***************************************************************************)
(* Model of migrate.py: the line-oriented quiz parser (parse_quiz,         *)
(* parse_question, skip_whitespace, skip_non_whitespace) and the           *)
(* projection of a parsed Quiz into the SQLite store (main,                *)
(* create_database_tables, copy_quiz_to_database).                         *)
(*                                                                         *)
(* A Python str is a sequence of characters; a Python list is a sequence;  *)
(* Python's 0-based index k is position k+1 of the sequence.  An ASCII     *)
(* character is written as the one-character string that holds it, and a   *)
(* character outside ASCII as the name of its code point: the str          *)
(* 'a\u1680' is <<"a", "U+1680">>.  The module is plain ASCII, so its       *)
(* strings have the same value in whichever locale it is read.             *)
(***************************************************************************)
EXTENDS Integers, Sequences, FiniteSets, TLC

VARIABLES
    lines,        \* f.readlines(): the lines of the quiz file
    name,         \* os.path.basename(path)
    pc,           \* position of main/parse_quiz
    i,            \* the cursor of parse_quiz
    instructions, \* [present, text]: None or the instructions string
    questions,    \* the list built by parse_quiz
    warnings,     \* the line numbers printed to stderr, in order
    calls,        \* the parse_question calls made so far, with their locals
    exc,          \* the exception that ended the run, "" if none
    quiz,         \* main's local: the Quiz returned by parse_quiz
    overwrite,    \* main's overwrite flag
    disk,         \* the committed contents of the destination file
    disk0,        \* the committed contents when the run started
    db,           \* the connection's view (committed + pending inserts)
    quiz_id,      \* copy_quiz_to_database locals
    question_id,
    lastrowid,    \* cursor.lastrowid
    qn,           \* index of the question being copied (0-based)
    an,           \* number of its answers already inserted
    tn            \* number of its tags already inserted

parseVars == <<lines, name, pc, i, instructions, questions, warnings, calls, exc, quiz>>
dbVars == <<overwrite, disk, disk0, db, quiz_id, question_id, lastrowid, qn, an, tn>>
vars == <<lines, name, pc, i, instructions, questions, warnings, calls, exc, quiz,
          overwrite, disk, disk0, db, quiz_id, question_id, lastrowid, qn, an, tn>>

----------------------------------------------------------------------------
(* Python str methods used by the parser *)

\* the characters str.isspace() and str.strip() take as whitespace: U+0009 to
\* U+000D, U+001C to U+001F, U+0020, U+0085, U+00A0, U+1680, U+2000 to U+200A,
\* U+2028, U+2029, U+202F, U+205F and U+3000
WhitespaceChars ==
    {"\t", "\n", "", "\f", "\r", "", "", "", "", " ",
     "U+0085", "U+00A0", "U+1680",
     "U+2000", "U+2001", "U+2002", "U+2003", "U+2004", "U+2005", "U+2006",
     "U+2007", "U+2008", "U+2009", "U+200A",
     "U+2028", "U+2029", "U+202F", "U+205F", "U+3000"}

\* str.isspace(): at least one character and all of them whitespace
isspace(s) == Len(s) > 0 /\ \A k \in 1..Len(s) : s[k] \in WhitespaceChars

RECURSIVE lstrip(_)
lstrip(s) == IF Len(s) > 0 /\ s[1] \in WhitespaceChars THEN lstrip(Tail(s)) ELSE s

RECURSIVE rstrip(_)
rstrip(s) ==
    IF Len(s) > 0 /\ s[Len(s)] \in WhitespaceChars
    THEN rstrip(SubSeq(s, 1, Len(s) - 1))
    ELSE s

\* str.strip()
strip(s) == rstrip(lstrip(s))

\* str.find(c): 0-based index of the first occurrence, -1 if there is none
find(s, c) ==
    IF \E k \in 1..Len(s) : s[k] = c
    THEN (CHOOSE k \in 1..Len(s) : s[k] = c /\ \A m \in 1..(k - 1) : s[m] # c) - 1
    ELSE -1

\* s[k:] for a 0-based k
SliceFrom(s, k) == SubSeq(s, k + 1, Len(s))

\* str.startswith(p)
startswith(s, p) == Len(s) >= Len(p) /\ SubSeq(s, 1, Len(p)) = p

\* c in s
Contains(s, c) == \E k \in 1..Len(s) : s[k] = c

\* str.split(c): always at least one fragment
RECURSIVE split(_, _)
split(s, c) ==
    LET k == find(s, c) IN
    IF k = -1 THEN <<s>>
    ELSE <<SubSeq(s, 1, k)>> \o split(SliceFrom(s, k + 1), c)

\* str.split(c, maxsplit=1): one or two fragments
split_maxsplit1(s, c) ==
    LET k == find(s, c) IN
    IF k = -1 THEN <<s>>
    ELSE <<SubSeq(s, 1, k), SliceFrom(s, k + 1)>>

\* [x.strip() for x in xs]
StripAll(xs) == [k \in 1..Len(xs) |-> strip(xs[k])]

\* the elements of a list, as a set
Range(xs) == {xs[k] : k \in 1..Len(xs)}

----------------------------------------------------------------------------
(* Line Scanner *)

\* lines[k] for a 0-based k
At(ls, k) == ls[k + 1]

\* not lines[i] or lines[i].isspace()
IsBlank(s) == Len(s) = 0 \/ isspace(s)

RECURSIVE skip_whitespace(_, _)
skip_whitespace(ls, k) ==
    IF k < Len(ls) /\ IsBlank(At(ls, k)) THEN skip_whitespace(ls, k + 1) ELSE k

\* skip_non_whitespace with a slip: resynchronize at the end of the file
skip_non_whitespace_ToEnd(ls, k) == Len(ls)

RECURSIVE skip_non_whitespace(_, _)
skip_non_whitespace(ls, k) ==
    IF k < Len(ls) /\ ~IsBlank(At(ls, k)) THEN skip_non_whitespace(ls, k + 1) ELSE k

----------------------------------------------------------------------------
(* Records *)

Answer(text, no_credit, correct) ==
    [text |-> text, no_credit |-> no_credit, correct |-> correct]

Question(text, type, answers, tags) ==
    [text |-> text, type |-> type, answers |-> answers, tags |-> tags]

\* the value None in the place of a Question
NoQuestion == [text |-> <<>>, type |-> "None", answers |-> <<>>, tags |-> <<>>]

Quiz(nm, qs, instr) == [name |-> nm, questions |-> qs, instructions |-> instr]

NoInstructions == [present |-> FALSE, text |-> <<>>]

----------------------------------------------------------------------------
(* Question Parser *)

\* the answer region: the cursor after the run of answer lines
RECURSIVE AnswerRegionEnd(_, _)
AnswerRegionEnd(ls, k) ==
    IF /\ k < Len(ls)
       /\ ~IsBlank(At(ls, k))
       /\ ~startswith(At(ls, k), <<"-">>)
       /\ ~startswith(At(ls, k), <<"[">>)
    THEN AnswerRegionEnd(ls, k + 1)
    ELSE k

\* the locals of parse_question at the start of the directive region
InitialDirectiveState(k) ==
    [no_credit |-> {}, choices |-> <<>>, ordered |-> FALSE, tags |-> <<>>,
     i |-> k, status |-> "ok"]

\* ApplyDirective with a slip: a nocredit line replaces the set
ApplyDirective_NoCreditOverwrites(ls, st) ==
    LET parts == split_maxsplit1(SliceFrom(At(ls, st.i), 1), ":")
        key == strip(parts[1])
        value == strip(parts[2])
    IN
    IF Len(parts) < 2 THEN [st EXCEPT !.status = "ValueError"]
    ELSE IF key = <<"n","o","c","r","e","d","i","t">>
    THEN [st EXCEPT !.no_credit = Range(StripAll(split(value, "/"))), !.i = @ + 1]
    ELSE IF key = <<"o","r","d","e","r","e","d">>
    THEN IF value = <<"t","r","u","e">>
         THEN [st EXCEPT !.ordered = TRUE, !.i = @ + 1]
         ELSE IF value = <<"f","a","l","s","e">>
         THEN [st EXCEPT !.ordered = FALSE, !.i = @ + 1]
         ELSE [st EXCEPT !.status = "parse_error"]
    ELSE IF key = <<"c","h","o","i","c","e","s">>
    THEN [st EXCEPT !.choices = StripAll(split(value, "/")), !.i = @ + 1]
    ELSE IF key = <<"t","a","g","s">>
    THEN [st EXCEPT !.tags = StripAll(split(value, ",")), !.i = @ + 1]
    ELSE [st EXCEPT !.status = "parse_error"]

\* one iteration of the directive loop on the line at st.i
ApplyDirective(ls, st) ==
    LET parts == split_maxsplit1(SliceFrom(At(ls, st.i), 1), ":") IN
    IF Len(parts) < 2
    THEN [st EXCEPT !.status = "ValueError"]
    ELSE
      LET key == strip(parts[1])
          value == strip(parts[2])
      IN
      IF key = <<"n","o","c","r","e","d","i","t">>
      THEN [st EXCEPT !.no_credit = @ \cup Range(StripAll(split(value, "/"))),
                      !.i = @ + 1]
      ELSE IF key = <<"o","r","d","e","r","e","d">>
      THEN IF value = <<"t","r","u","e">>
           THEN [st EXCEPT !.ordered = TRUE, !.i = @ + 1]
           ELSE IF value = <<"f","a","l","s","e">>
           THEN [st EXCEPT !.ordered = FALSE, !.i = @ + 1]
           ELSE [st EXCEPT !.status = "parse_error"]
      ELSE IF key = <<"c","h","o","i","c","e","s">>
      THEN [st EXCEPT !.choices = StripAll(split(value, "/")), !.i = @ + 1]
      ELSE IF key = <<"t","a","g","s">>
      THEN [st EXCEPT !.tags = StripAll(split(value, ",")), !.i = @ + 1]
      ELSE [st EXCEPT !.status = "parse_error"]

\* the directive loop
RECURSIVE DirectiveRegion(_, _)
DirectiveRegion(ls, st) ==
    IF /\ st.status = "ok"
       /\ st.i < Len(ls)
       /\ ~IsBlank(At(ls, st.i))
       /\ startswith(At(ls, st.i), <<"-">>)
    THEN DirectiveRegion(ls, ApplyDirective(ls, st))
    ELSE st

\* the Answer records of the literal answer lines
LiteralAnswers(answers_as_strings, no_credit) ==
    [k \in 1..Len(answers_as_strings) |->
        Answer(answers_as_strings[k], answers_as_strings[k] \in no_credit, TRUE)]

\* Distractors with a slip: the first choice is dropped
Distractors_SkipsFirst(choices) ==
    [k \in 1..(Len(choices) - 1) |-> Answer(choices[k + 1], FALSE, FALSE)]

\* the Answer records of the choices
Distractors(choices) ==
    [k \in 1..Len(choices) |-> Answer(choices[k], FALSE, FALSE)]

\* DeriveQuestion with a slip: the ordered flag is tested the wrong way round
DeriveQuestion_OrderedInverted(text, answers_as_strings, st) ==
    LET answers ==
          [k \in 1..Len(answers_as_strings) |->
              Answer(answers_as_strings[k], answers_as_strings[k] \in st.no_credit, TRUE)]
    IN
    IF Len(answers_as_strings) > 0
    THEN IF Len(answers) > 1
         THEN [exc |-> "",
               question |-> Question(text,
                                     IF st.ordered THEN "unordered" ELSE "ordered",
                                     answers, st.tags)]
         ELSE IF Len(st.choices) > 0
         THEN [exc |-> "",
               question |-> Question(text, "multiple choice",
                                     answers \o [k \in 1..Len(st.choices) |->
                                                   Answer(st.choices[k], FALSE, FALSE)],
                                     st.tags)]
         ELSE [exc |-> "",
               question |-> Question(text, "short answer", answers, st.tags)]
    ELSE IF Contains(text, "=")
         THEN [exc |-> "TypeError", question |-> NoQuestion]
         ELSE [exc |-> "", question |-> NoQuestion]

\* the record built from the three regions; outcome "TypeError" is the
\* Question(...) call without its tags argument
DeriveQuestion(text, answers_as_strings, st) ==
    LET answers == LiteralAnswers(answers_as_strings, st.no_credit) IN
    IF Len(answers_as_strings) > 0
    THEN IF Len(answers) > 1
         THEN [exc |-> "",
               question |-> Question(text,
                                     IF st.ordered THEN "ordered" ELSE "unordered",
                                     answers, st.tags)]
         ELSE IF Len(st.choices) > 0
         THEN [exc |-> "",
               question |-> Question(text, "multiple choice",
                                     answers \o Distractors(st.choices), st.tags)]
         ELSE [exc |-> "",
               question |-> Question(text, "short answer", answers, st.tags)]
    ELSE IF Contains(text, "=")
         THEN [exc |-> "TypeError", question |-> NoQuestion]
         ELSE [exc |-> "", question |-> NoQuestion]

\* the locals of a call that returned at the header check
NoLocals(k) ==
    [start |-> k, text |-> <<>>, answers_as_strings |-> <<>>,
     directives_from |-> k, no_credit |-> {}, choices |-> <<>>,
     ordered |-> FALSE, tags |-> <<>>]

\* parse_question(lines, i): the returned pair (question, i), the exception
\* raised instead if any, and the locals at the point of return
parse_question(ls, k) ==
    LET left_bracket_index == find(At(ls, k), "]")
        text == strip(SliceFrom(At(ls, k), left_bracket_index + 1))
        a_end == AnswerRegionEnd(ls, k + 1)
        answers_as_strings == [m \in 1..(a_end - (k + 1)) |-> strip(At(ls, k + m))]
        st == DirectiveRegion(ls, InitialDirectiveState(a_end))
        d == DeriveQuestion(text, answers_as_strings, st)
        locals == [start |-> k, text |-> text,
                   answers_as_strings |-> answers_as_strings,
                   directives_from |-> a_end,
                   no_credit |-> st.no_credit, choices |-> st.choices,
                   ordered |-> st.ordered, tags |-> st.tags]
    IN
    IF left_bracket_index = -1
    THEN [outcome |-> "header_error", exc |-> "", question |-> NoQuestion,
          i |-> skip_non_whitespace(ls, k + 1), failed_at |-> k,
          locals |-> NoLocals(k)]
    ELSE IF st.status = "ValueError"
    THEN [outcome |-> "raised", exc |-> "ValueError", question |-> NoQuestion,
          i |-> st.i, failed_at |-> st.i, locals |-> locals]
    ELSE IF st.status = "parse_error"
    THEN [outcome |-> "directive_error", exc |-> "", question |-> NoQuestion,
          i |-> skip_non_whitespace(ls, st.i + 1), failed_at |-> st.i,
          locals |-> locals]
    ELSE IF d.exc # ""
    THEN [outcome |-> "raised", exc |-> d.exc, question |-> NoQuestion,
          i |-> st.i, failed_at |-> -1, locals |-> locals]
    ELSE [outcome |-> IF d.question = NoQuestion THEN "no_record" ELSE "parsed",
          exc |-> "", question |-> d.question,
          i |-> st.i, failed_at |-> -1, locals |-> locals]

----------------------------------------------------------------------------
(* Quiz Parser: parse_quiz as a state machine *)

instructions_prefix == <<"-"," ","i","n","s","t","r","u","c","t","i","o","n","s",":">>

NoQuiz == Quiz("", <<>>, NoInstructions)

\* lines 137-146: skip the leading blank lines, read the instructions line;
\* lines[i] is an IndexError when no line is left
Start ==
    /\ pc = "start"
    /\ LET i0 == skip_whitespace(lines, 0) IN
       IF i0 >= Len(lines)
       THEN /\ pc' = "raised"
            /\ exc' = "IndexError"
            /\ i' = i0
            /\ UNCHANGED instructions
       ELSE IF startswith(At(lines, i0), instructions_prefix)
       THEN /\ instructions' =
                 [present |-> TRUE,
                  text |-> strip(SliceFrom(At(lines, i0), Len(instructions_prefix)))]
            /\ i' = skip_whitespace(lines, i0 + 1)
            /\ pc' = "loop"
            /\ UNCHANGED exc
       ELSE /\ instructions' = NoInstructions
            /\ i' = i0
            /\ pc' = "loop"
            /\ UNCHANGED exc
    /\ UNCHANGED <<lines, name, questions, warnings, calls, quiz>>
    /\ UNCHANGED dbVars

\* lines 147-156: one iteration of the main loop
Iterate ==
    /\ pc = "loop"
    /\ i < Len(lines)
    /\ LET r == parse_question(lines, i) IN
       /\ calls' = Append(calls, r)
       /\ IF r.exc # ""
          THEN /\ pc' = "raised"
               /\ exc' = r.exc
               /\ UNCHANGED <<i, questions, warnings>>
          ELSE /\ IF r.question # NoQuestion
                  THEN /\ questions' = Append(questions, r.question)
                       /\ UNCHANGED warnings
                  ELSE /\ warnings' = Append(warnings, r.i + 1)
                       /\ UNCHANGED questions
               /\ i' = skip_whitespace(lines, r.i)
               /\ UNCHANGED <<pc, exc>>
    /\ UNCHANGED <<lines, name, instructions, quiz>>
    /\ UNCHANGED dbVars

\* lines 158-160 and line 9: the loop is over, the Quiz is returned to main
Return ==
    /\ pc = "loop"
    /\ i >= Len(lines)
    /\ quiz' = Quiz(name, questions, instructions)
    /\ pc' = "parsed"
    /\ UNCHANGED <<lines, name, i, instructions, questions, warnings, calls, exc>>
    /\ UNCHANGED dbVars

----------------------------------------------------------------------------
(* Destination store: the four tables of create_database_tables *)

\* no file at the destination path
Absent ==
    [exists |-> FALSE, quizzes |-> <<>>, questions |-> <<>>, answers |-> <<>>,
     tags |-> <<>>, seq_quizzes |-> 0, seq_questions |-> 0]

\* the file right after create_database_tables
create_database_tables ==
    [exists |-> TRUE, quizzes |-> <<>>, questions |-> <<>>, answers |-> <<>>,
     tags |-> <<>>, seq_quizzes |-> 0, seq_questions |-> 0]

\* a Python bool bound to a BOOLEAN column is stored as 1 or 0
BoolToColumn(b) == IF b THEN 1 ELSE 0

\* quiz.instructions or ""
InstructionsOrEmpty(instr) ==
    IF instr.present /\ Len(instr.text) > 0 THEN instr.text ELSE <<>>

QuizRow(id, qz) ==
    [id |-> id, name |-> qz.name,
     instructions |-> InstructionsOrEmpty(qz.instructions), version |-> "1.0"]

QuestionRow(id, qz_id, question) ==
    [id |-> id, quiz |-> qz_id, text |-> question.text, type |-> question.type]

\* AnswerRow with a slip: the two flags bound to each other's column
AnswerRow_FlagsSwapped(rowid, q_id, answer) ==
    [rowid |-> rowid, question |-> q_id, text |-> answer.text,
     correct |-> BoolToColumn(answer.no_credit),
     no_credit |-> BoolToColumn(answer.correct)]

AnswerRow(rowid, q_id, answer) ==
    [rowid |-> rowid, question |-> q_id, text |-> answer.text,
     correct |-> BoolToColumn(answer.correct),
     no_credit |-> BoolToColumn(answer.no_credit)]

TagRow(rowid, q_id, tag) ==
    [rowid |-> rowid, question |-> q_id, name |-> tag]

QuestionTypes ==
    {"short answer", "ordered", "unordered", "multiple choice", "flashcard"}

\* the constraints of each table
QuizRowAllowed(view, row) ==
    /\ row.name # ""
    /\ \A k \in 1..Len(view.quizzes) : view.quizzes[k].name # row.name
    /\ row.version # ""

QuestionRowAllowed(row) == row.text # <<>> /\ row.type \in QuestionTypes

AnswerRowAllowed(row) == row.text # <<>>

TagRowAllowed(row) == row.name # <<>>

\* the rowid of the next row of a table without AUTOINCREMENT
NextRowid(rows) == Len(rows) + 1

\* DiskAfterInsert with a slip: every INSERT is committed at once
DiskAfterInsert_Autocommit(dsk, view) == view

\* the committed file after an INSERT on the connection: the connection is
\* opened with the default isolation level, so the INSERT stays pending
DiskAfterInsert(dsk, view) == dsk

\* the connection is dropped without commit: its pending rows are discarded
Rollback(dsk) == dsk

----------------------------------------------------------------------------
(* main after parse_quiz, and copy_quiz_to_database *)

\* lines 11-13: os.remove(new) when overwrite is set
RemoveOld ==
    /\ pc = "parsed"
    /\ disk' = IF overwrite THEN Absent ELSE disk
    /\ pc' = "connect"
    /\ UNCHANGED <<lines, name, i, instructions, questions, warnings, calls, exc, quiz>>
    /\ UNCHANGED <<overwrite, disk0, db, quiz_id, question_id, lastrowid, qn, an, tn>>

\* lines 15-18: connect, and create the tables when the file did not exist
Connect ==
    /\ pc = "connect"
    /\ disk' = IF disk.exists THEN disk ELSE create_database_tables
    /\ db' = disk'
    /\ pc' = "insert_quiz"
    /\ UNCHANGED <<lines, name, i, instructions, questions, warnings, calls, exc, quiz>>
    /\ UNCHANGED <<overwrite, disk0, quiz_id, question_id, lastrowid, qn, an, tn>>

\* an INSERT violated a constraint: main ends with the exception
RaiseIntegrityError ==
    /\ pc' = "raised"
    /\ exc' = "IntegrityError"
    /\ db' = Rollback(disk)
    /\ UNCHANGED <<lines, name, i, instructions, questions, warnings, calls, quiz>>
    /\ UNCHANGED <<overwrite, disk, disk0, quiz_id, question_id, lastrowid, qn, an, tn>>

\* lines 81-91
InsertQuiz ==
    /\ pc = "insert_quiz"
    /\ LET id == db.seq_quizzes + 1
           row == QuizRow(id, quiz)
       IN
       IF QuizRowAllowed(db, row)
       THEN /\ db' = [db EXCEPT !.quizzes = Append(@, row), !.seq_quizzes = id]
            /\ disk' = DiskAfterInsert(disk, db')
            /\ lastrowid' = id
            /\ quiz_id' = id
            /\ qn' = 0
            /\ pc' = "questions"
            /\ UNCHANGED <<lines, name, i, instructions, questions, warnings,
                           calls, exc, quiz>>
            /\ UNCHANGED <<overwrite, disk0, question_id, an, tn>>
       ELSE RaiseIntegrityError

\* lines 93-103
InsertQuestion ==
    /\ pc = "questions"
    /\ qn < Len(quiz.questions)
    /\ LET id == db.seq_questions + 1
           row == QuestionRow(id, quiz_id, quiz.questions[qn + 1])
       IN
       IF QuestionRowAllowed(row)
       THEN /\ db' = [db EXCEPT !.questions = Append(@, row), !.seq_questions = id]
            /\ disk' = DiskAfterInsert(disk, db')
            /\ lastrowid' = id
            /\ question_id' = id
            /\ an' = 0
            /\ pc' = "answers"
            /\ UNCHANGED <<lines, name, i, instructions, questions, warnings,
                           calls, exc, quiz>>
            /\ UNCHANGED <<overwrite, disk0, quiz_id, qn, tn>>
       ELSE RaiseIntegrityError

\* lines 105-119
InsertAnswer ==
    /\ pc = "answers"
    /\ an < Len(quiz.questions[qn + 1].answers)
    /\ LET rowid == NextRowid(db.answers)
           row == AnswerRow(rowid, question_id, quiz.questions[qn + 1].answers[an + 1])
       IN
       IF AnswerRowAllowed(row)
       THEN /\ db' = [db EXCEPT !.answers = Append(@, row)]
            /\ disk' = DiskAfterInsert(disk, db')
            /\ lastrowid' = rowid
            /\ an' = an + 1
            /\ UNCHANGED <<lines, name, pc, i, instructions, questions, warnings,
                           calls, exc, quiz>>
            /\ UNCHANGED <<overwrite, disk0, quiz_id, question_id, qn, tn>>
       ELSE RaiseIntegrityError

\* line 105 to line 121: the answers loop is over
EndAnswers ==
    /\ pc = "answers"
    /\ an >= Len(quiz.questions[qn + 1].answers)
    /\ tn' = 0
    /\ pc' = "tags"
    /\ UNCHANGED <<lines, name, i, instructions, questions, warnings, calls, exc, quiz>>
    /\ UNCHANGED <<overwrite, disk, disk0, db, quiz_id, question_id, lastrowid, qn, an>>

\* lines 121-130
InsertTag ==
    /\ pc = "tags"
    /\ tn < Len(quiz.questions[qn + 1].tags)
    /\ LET rowid == NextRowid(db.tags)
           row == TagRow(rowid, question_id, quiz.questions[qn + 1].tags[tn + 1])
       IN
       IF TagRowAllowed(row)
       THEN /\ db' = [db EXCEPT !.tags = Append(@, row)]
            /\ disk' = DiskAfterInsert(disk, db')
            /\ lastrowid' = rowid
            /\ tn' = tn + 1
            /\ UNCHANGED <<lines, name, pc, i, instructions, questions, warnings,
                           calls, exc, quiz>>
            /\ UNCHANGED <<overwrite, disk0, quiz_id, question_id, qn, an>>
       ELSE RaiseIntegrityError

\* line 121 to line 93: the tags loop is over, on to the next question
EndTags ==
    /\ pc = "tags"
    /\ tn >= Len(quiz.questions[qn + 1].tags)
    /\ qn' = qn + 1
    /\ pc' = "questions"
    /\ UNCHANGED <<lines, name, i, instructions, questions, warnings, calls, exc, quiz>>
    /\ UNCHANGED <<overwrite, disk, disk0, db, quiz_id, question_id, lastrowid, an, tn>>

\* lines 22-23: every question is copied; db.commit() and db.close()
Commit ==
    /\ pc = "questions"
    /\ qn >= Len(quiz.questions)
    /\ disk' = db
    /\ pc' = "done"
    /\ UNCHANGED <<lines, name, i, instructions, questions, warnings, calls, exc, quiz>>
    /\ UNCHANGED <<overwrite, disk0, db, quiz_id, question_id, lastrowid, qn, an, tn>>

----------------------------------------------------------------------------
(* The inputs: lines as f.readlines() returns them *)

\* \n
BlankLine ==
    <<"\n">>

\* a whitespace-only line: space, form feed, U+3000, newline
SpacesLine ==
    <<" ", "\f", "U+3000", "\n">>

\* [1]Q\n
HeaderLine ==
    <<"[", "1", "]", "Q", "\n">>

\* [1]\n
HeaderNoTextLine ==
    <<"[", "1", "]", "\n">>

\* [1]a=b\n
HeaderFlashcardLine ==
    <<"[", "1", "]", "a", "=", "b", "\n">>

\* x\n
NoBracketLine ==
    <<"x", "\n">>

\* A\n
AnswerLine ==
    <<"A", "\n">>

\* the answer B between U+1680 and a form feed
AnswerPaddedLine ==
    <<"U+1680", "B", "\f", "\n">>

\* C\n
AnswerCLine ==
    <<"C", "\n">>

\* -k\n
NoColonLine ==
    <<"-", "k", "\n">>

\* -z: v\n
UnknownKeyLine ==
    <<"-", "z", ":", " ", "v", "\n">>

\* -ordered: yes\n
OrderedBadLine ==
    <<"-", "o", "r", "d", "e", "r", "e", "d", ":", " ", "y", "e", "s", "\n">>

\* -choices: B/\n
ChoicesEmptyFragmentLine ==
    <<"-", "c", "h", "o", "i", "c", "e", "s", ":", " ", "B", "/", "\n">>

\* - instructions: I\n
InstructionsLine ==
    <<"-", " ", "i", "n", "s", "t", "r", "u", "c", "t", "i", "o", "n", "s", ":", " ", "I", "\n">>

\* -nocredit:A\n
NoCreditALine ==
    <<"-", "n", "o", "c", "r", "e", "d", "i", "t", ":", "A", "\n">>

\* -nocredit: B / C\n
NoCreditBCLine ==
    <<"-", "n", "o", "c", "r", "e", "d", "i", "t", ":", " ", "B", " ", "/", " ", "C", "\n">>

\* -ordered: true\n
OrderedTrueLine ==
    <<"-", "o", "r", "d", "e", "r", "e", "d", ":", " ", "t", "r", "u", "e", "\n">>

\* -ordered:false\n
OrderedFalseLine ==
    <<"-", "o", "r", "d", "e", "r", "e", "d", ":", "f", "a", "l", "s", "e", "\n">>

\* -choices: C/D\n
ChoicesCDLine ==
    <<"-", "c", "h", "o", "i", "c", "e", "s", ":", " ", "C", "/", "D", "\n">>

\* -choices:E\n
ChoicesELine ==
    <<"-", "c", "h", "o", "i", "c", "e", "s", ":", "E", "\n">>

\* -tags: t, u\n
TagsTULine ==
    <<"-", "t", "a", "g", "s", ":", " ", "t", ",", " ", "u", "\n">>

\* -tags:v\n
TagsVLine ==
    <<"-", "t", "a", "g", "s", ":", "v", "\n">>

\* -tags: t,t\n
TagsTTLine ==
    <<"-", "t", "a", "g", "s", ":", " ", "t", ",", "t", "\n">>

\* -tags:\n
TagsEmptyLine ==
    <<"-", "t", "a", "g", "s", ":", "\n">>

\* [2] R\n
HeaderRLine ==
    <<"[", "2", "]", " ", "R", "\n">>

\* the bounds of the inputs
MaxLines == 4
MaxResyncLines == 5
MaxAnswers == 2
MaxDirectives == 3
MaxQuestions == 2

\* the lists of at most n elements of S
SeqsUpTo(S, n) == UNION {[1..m -> S] : m \in 0..n}

ParseLines ==
    {BlankLine, HeaderLine, HeaderNoTextLine, HeaderFlashcardLine, AnswerLine,
     NoColonLine, UnknownKeyLine, ChoicesEmptyFragmentLine, InstructionsLine}

ResyncLines ==
    {BlankLine, SpacesLine, NoBracketLine, HeaderLine, AnswerLine,
     UnknownKeyLine, OrderedBadLine}

QuestionAnswerLines == {AnswerLine, AnswerPaddedLine}

QuestionDirectiveLines ==
    {NoCreditALine, NoCreditBCLine, OrderedTrueLine, OrderedFalseLine,
     ChoicesCDLine, ChoicesELine, TagsTULine, TagsVLine}

\* one question of a quiz file, without the blank line that ends it
QuestionBlocks ==
    {<<HeaderLine, AnswerLine>>,
     <<HeaderRLine, AnswerLine, AnswerPaddedLine, TagsTTLine>>,
     <<HeaderLine, AnswerCLine, ChoicesCDLine, NoCreditBCLine>>,
     <<HeaderNoTextLine, AnswerLine>>,
     <<HeaderLine, AnswerLine, ChoicesEmptyFragmentLine>>,
     <<HeaderRLine, AnswerLine, TagsEmptyLine>>}

\* the file made of the given questions, a blank line after each
RECURSIVE JoinBlocks(_)
JoinBlocks(bs) ==
    IF Len(bs) = 0 THEN <<>>
    ELSE bs[1] \o <<BlankLine>> \o JoinBlocks(Tail(bs))

QuizNames == {"n1", "n2"}

\* the store left by an earlier run on the file
\* "[1]Q\nA\n\u1680B\f\n-tags: t,t\n\n[2] R\nC\n-choices: C/D\n" named n1
EarlierStore ==
    [exists |-> TRUE,
     quizzes |-> <<[id |-> 1, name |-> "n1", instructions |-> <<>>, version |-> "1.0"]>>,
     questions |-> <<[id |-> 1, quiz |-> 1, text |-> <<"Q">>, type |-> "unordered"],
                     [id |-> 2, quiz |-> 1, text |-> <<"R">>, type |-> "multiple choice"]>>,
     answers |-> <<[rowid |-> 1, question |-> 1, text |-> <<"A">>, correct |-> 1, no_credit |-> 0],
                   [rowid |-> 2, question |-> 1, text |-> <<"B">>, correct |-> 1, no_credit |-> 0],
                   [rowid |-> 3, question |-> 2, text |-> <<"C">>, correct |-> 1, no_credit |-> 0],
                   [rowid |-> 4, question |-> 2, text |-> <<"C">>, correct |-> 0, no_credit |-> 0],
                   [rowid |-> 5, question |-> 2, text |-> <<"D">>, correct |-> 0, no_credit |-> 0]>>,
     tags |-> <<[rowid |-> 1, question |-> 1, name |-> <<"t">>],
                [rowid |-> 2, question |-> 1, name |-> <<"t">>]>>,
     seq_quizzes |-> 1, seq_questions |-> 2]

InitialStores == {Absent, create_database_tables, EarlierStore}

----------------------------------------------------------------------------
(* Specifications *)

\* the state when main is entered, before parse_quiz has read anything
InitLocals ==
    /\ pc = "start"
    /\ i = 0
    /\ instructions = NoInstructions
    /\ questions = <<>>
    /\ warnings = <<>>
    /\ calls = <<>>
    /\ exc = ""
    /\ quiz = NoQuiz
    /\ disk0 = disk
    /\ db = Absent
    /\ quiz_id = 0
    /\ question_id = 0
    /\ lastrowid = 0
    /\ qn = 0
    /\ an = 0
    /\ tn = 0

\* parse_quiz on any file of at most MaxLines lines
Init ==
    /\ lines \in SeqsUpTo(ParseLines, MaxLines)
    /\ name = "n1"
    /\ overwrite = FALSE
    /\ disk = Absent
    /\ InitLocals

\* parse_quiz on files with malformed headers and directives
InitResync ==
    /\ lines \in SeqsUpTo(ResyncLines, MaxResyncLines)
    /\ name = "n1"
    /\ overwrite = FALSE
    /\ disk = Absent
    /\ InitLocals

\* parse_quiz on one question: a header, answer lines, valid directive lines
InitQuestion ==
    /\ \E as \in SeqsUpTo(QuestionAnswerLines, MaxAnswers) :
       \E ds \in SeqsUpTo(QuestionDirectiveLines, MaxDirectives) :
          lines = <<HeaderLine>> \o as \o ds
    /\ name = "n1"
    /\ overwrite = FALSE
    /\ disk = Absent
    /\ InitLocals

\* main on a file of at most MaxQuestions questions and a destination
InitMain ==
    /\ \E bs \in SeqsUpTo(QuestionBlocks, MaxQuestions) : lines = JoinBlocks(bs)
    /\ name \in QuizNames
    /\ overwrite \in BOOLEAN
    /\ disk \in InitialStores
    /\ InitLocals

NextParse == Start \/ Iterate \/ Return

Next ==
    \/ Start \/ Iterate \/ Return
    \/ RemoveOld \/ Connect
    \/ InsertQuiz \/ InsertQuestion \/ InsertAnswer \/ EndAnswers
    \/ InsertTag \/ EndTags \/ Commit

Spec == Init /\ [][NextParse]_vars

SpecResync == InitResync /\ [][NextParse]_vars

SpecQuestion == InitQuestion /\ [][NextParse]_vars

SpecMain == InitMain /\ [][Next]_vars

----------------------------------------------------------------------------
(* Vocabulary of the properties, stated on the lines themselves *)

ParserExceptions == {"IndexError", "ValueError", "TypeError"}

HasNonBlankLine == \E k \in 1..Len(lines) : ~IsBlank(lines[k])

\* the line at 0-based index k is a directive line / an answer line
IsDirectiveLine(k) ==
    k < Len(lines) /\ ~IsBlank(At(lines, k)) /\ At(lines, k)[1] = "-"

IsAnswerLine(k) ==
    k < Len(lines) /\ ~IsBlank(At(lines, k)) /\ At(lines, k)[1] \notin {"-", "["}

\* the text after the first "]" of a line, trimmed
HeaderText(line) == strip(SliceFrom(line, find(line, "]") + 1))

\* key and value of a directive line "-key: value"
KeyOf(line) == strip(SubSeq(line, 2, find(line, ":")))
ValueOf(line) == strip(SliceFrom(line, find(line, ":") + 1))

KnownKeys ==
    {<<"n","o","c","r","e","d","i","t">>, <<"o","r","d","e","r","e","d">>,
     <<"c","h","o","i","c","e","s">>, <<"t","a","g","s">>}

\* a "-key: value" line with an unrecognized key or a bad ordered value
IsBadDirective(line) ==
    /\ Contains(line, ":")
    /\ \/ KeyOf(line) \notin KnownKeys
       \/ /\ KeyOf(line) = <<"o","r","d","e","r","e","d">>
          /\ ValueOf(line) \notin {<<"t","r","u","e">>, <<"f","a","l","s","e">>}

\* index of the first blank line after line k, the number of lines if none
FirstBlankAfter(k) ==
    IF \E m \in (k + 1)..(Len(lines) - 1) : IsBlank(At(lines, m))
    THEN CHOOSE m \in (k + 1)..(Len(lines) - 1) :
            /\ IsBlank(At(lines, m))
            /\ \A n \in (k + 1)..(m - 1) : ~IsBlank(At(lines, n))
    ELSE Len(lines)

\* index of the first non-blank line at or after line k, the number of lines if none
FirstNonBlankFrom(k) ==
    IF \E m \in k..(Len(lines) - 1) : ~IsBlank(At(lines, m))
    THEN CHOOSE m \in k..(Len(lines) - 1) :
            /\ ~IsBlank(At(lines, m))
            /\ \A n \in k..(m - 1) : IsBlank(At(lines, n))
    ELSE Len(lines)

\* the calls that returned no record after a header or directive failure
Failed(c) == c.outcome \in {"header_error", "directive_error"}

\* a header with "]", one or more answer lines, then a blank line or the end
WellFormedAt(k) ==
    /\ k < Len(lines)
    /\ Contains(At(lines, k), "]")
    /\ IsAnswerLine(k + 1)
    /\ \E e \in (k + 2)..Len(lines) :
          /\ \A m \in (k + 1)..(e - 1) : IsAnswerLine(m)
          /\ e = Len(lines) \/ IsBlank(At(lines, e))

----------------------------------------------------------------------------
(* C1: parse_quiz never raises: whatever the lines are, it runs to          *)
(* completion and returns a Quiz, so the run never ends in an exception of  *)
(* the parser.                                                              *)
C1_NeverRaises == ~(pc = "raised" /\ exc \in ParserExceptions)

(* C5: a question whose header has "]", with zero answer lines and a valid  *)
(* directive region, is a flashcard appended to the questions when its      *)
(* header text contains "=" (text kept with the "=", no answers), and is    *)
(* no record plus a warning when it does not.                               *)
C5_Flashcard ==
    \A k \in 1..Len(calls) :
        LET c == calls[k]
            header == At(lines, c.locals.start)
        IN
        (/\ Contains(header, "]")
         /\ ~IsAnswerLine(c.locals.start + 1)
         /\ c.outcome # "directive_error"
         /\ c.exc # "ValueError")
        => IF Contains(HeaderText(header), "=")
           THEN /\ c.outcome = "parsed"
                /\ c.question.type = "flashcard"
                /\ c.question.text = HeaderText(header)
                /\ c.question.answers = <<>>
                /\ c.question \in Range(questions)
           ELSE /\ c.outcome = "no_record"
                /\ c.i + 1 \in Range(warnings)

(* C8: on lines with at least one non-blank line, every parse_question      *)
(* call of the main loop returns a cursor j with i < j <= len(lines), and   *)
(* the loop is left only with the cursor equal to len(lines).               *)
C8_CursorAdvancesToEnd ==
    HasNonBlankLine =>
        /\ \A k \in 1..Len(calls) :
              /\ calls[k].outcome # "raised"
              /\ calls[k].locals.start < calls[k].i
              /\ calls[k].i <= Len(lines)
        /\ pc \in {"parsed", "raised"} => i = Len(lines)

(* C9: every Question of the returned Quiz has a non-empty text and every   *)
(* Answer of it (literal or distractor) has a non-empty text.               *)
C9_NonEmptyTexts ==
    pc = "parsed" =>
        \A k \in 1..Len(quiz.questions) :
            /\ quiz.questions[k].text # <<>>
            /\ \A m \in 1..Len(quiz.questions[k].answers) :
                  quiz.questions[k].answers[m].text # <<>>

(* C2: a call that fails on a header without "]" or on a directive with an  *)
(* unrecognized key or a bad ordered value returns no record and the index  *)
(* of the first blank line after the failing line (the number of lines if   *)
(* none); the next call starts at the first non-blank line after it, and a  *)
(* well-formed question there is parsed and appended.                       *)
C2_ResyncAtBlankLine ==
    \A k \in 1..Len(calls) :
        LET c == calls[k]
            start == c.locals.start
            from == c.locals.directives_from
            resume == FirstNonBlankFrom(c.i)
        IN
        /\ ~Contains(At(lines, start), "]")
              => c.outcome = "header_error" /\ c.failed_at = start
        /\ (/\ Contains(At(lines, start), "]")
            /\ \E m \in from..(Len(lines) - 1) :
                  /\ \A n \in from..m : IsDirectiveLine(n)
                  /\ IsBadDirective(At(lines, m)))
              => /\ c.outcome = "directive_error"
                 /\ IsBadDirective(At(lines, c.failed_at))
                 /\ \A n \in from..(c.failed_at - 1) :
                       IsDirectiveLine(n) /\ ~IsBadDirective(At(lines, n))
        /\ Failed(c)
              => /\ c.question = NoQuestion
                 /\ c.i = FirstBlankAfter(c.failed_at)
                 /\ k = Len(calls) => i = resume
                 /\ k < Len(calls) => calls[k + 1].locals.start = resume
                 /\ (k < Len(calls) /\ WellFormedAt(resume))
                       => /\ calls[k + 1].outcome = "parsed"
                          /\ calls[k + 1].question.text = HeaderText(At(lines, resume))
                          /\ calls[k + 1].question \in Range(questions)

\* a directive failure followed, after the blank line, by an appended question
C2_Witness ==
    \E k \in 1..(Len(calls) - 1) :
        /\ calls[k].outcome = "directive_error"
        /\ calls[k].i < Len(lines)
        /\ IsBlank(At(lines, calls[k].i))
        /\ calls[k + 1].outcome = "parsed"
        /\ calls[k + 1].question \in Range(questions)

----------------------------------------------------------------------------
(* The lines of one parse_question call, read off the file *)

KeyNoCredit == <<"n","o","c","r","e","d","i","t">>
KeyOrdered == <<"o","r","d","e","r","e","d">>
KeyChoices == <<"c","h","o","i","c","e","s">>
KeyTags == <<"t","a","g","s">>
ValueTrue == <<"t","r","u","e">>

\* the indices of the answer lines and of the directive lines the call consumed
AnswerIdx(c) == {m \in (c.locals.start + 1)..(c.i - 1) : IsAnswerLine(m)}
DirectiveIdx(c) == {m \in (c.locals.start + 1)..(c.i - 1) : IsDirectiveLine(m)}

\* the directive lines of the call with the given key, and the last of a set
WithKey(c, key) == {m \in DirectiveIdx(c) : KeyOf(At(lines, m)) = key}
LastOf(S) == CHOOSE m \in S : \A n \in S : n <= m

\* the trimmed fragments of the value of directive line m
Fragments(m, sep) == StripAll(split(ValueOf(At(lines, m)), sep))

\* the literal answers of the call are the trimmed answer lines, in line
\* order, all correct
LiteralAnswersInLineOrder(c) ==
    /\ Len(c.question.answers) >= Cardinality(AnswerIdx(c))
    /\ \A k \in 1..Cardinality(AnswerIdx(c)) :
          /\ c.question.answers[k].text = strip(At(lines, c.locals.start + k))
          /\ c.question.answers[k].correct = TRUE

(* C3 as stated: with two or more answer lines the type is ordered iff some *)
(* "-ordered: true" line is present, unordered otherwise, and the answers   *)
(* are the trimmed answer lines in line order, all correct.                 *)
C3_OrderedIffAnyTrue ==
    \A k \in 1..Len(calls) :
        LET c == calls[k] IN
        (c.outcome = "parsed" /\ Cardinality(AnswerIdx(c)) >= 2)
        => /\ c.question.type =
                 IF \E m \in WithKey(c, KeyOrdered) : ValueOf(At(lines, m)) = ValueTrue
                 THEN "ordered" ELSE "unordered"
           /\ Len(c.question.answers) = Cardinality(AnswerIdx(c))
           /\ LiteralAnswersInLineOrder(c)

(* C3 amended: with two or more answer lines the type is ordered iff the    *)
(* last "-ordered" line has the value true, unordered otherwise (also when  *)
(* there is no such line); a choices line does not change this; the answers *)
(* are the trimmed answer lines in line order, all correct.                 *)
C3_OrderedIffLastTrue ==
    \A k \in 1..Len(calls) :
        LET c == calls[k] IN
        (c.outcome = "parsed" /\ Cardinality(AnswerIdx(c)) >= 2)
        => /\ c.question.type =
                 IF /\ WithKey(c, KeyOrdered) # {}
                    /\ ValueOf(At(lines, LastOf(WithKey(c, KeyOrdered)))) = ValueTrue
                 THEN "ordered" ELSE "unordered"
           /\ Len(c.question.answers) = Cardinality(AnswerIdx(c))
           /\ LiteralAnswersInLineOrder(c)

\* two answers, an "-ordered: true" line overridden by a later "-ordered: false"
C3_Witness ==
    \E k \in 1..Len(calls) :
        LET c == calls[k] IN
        /\ c.outcome = "parsed"
        /\ Cardinality(AnswerIdx(c)) >= 2
        /\ \E m \in WithKey(c, KeyOrdered) : ValueOf(At(lines, m)) = ValueTrue
        /\ ValueOf(At(lines, LastOf(WithKey(c, KeyOrdered)))) # ValueTrue
        /\ c.question.type = "unordered"
        /\ c.question \in Range(questions)

\* the answers of a one-answer question with the choices line m in effect
OneAnswerWithChoices(c, m) ==
    LET d == Fragments(m, "/") IN
    /\ c.question.type = "multiple choice"
    /\ Len(c.question.answers) = Len(d) + 1
    /\ LiteralAnswersInLineOrder(c)
    /\ \A n \in 1..Len(d) : c.question.answers[n + 1] = Answer(d[n], FALSE, FALSE)

(* C4 as stated: with exactly one answer line, a choices line listing N     *)
(* distractors makes the question multiple choice with N+1 answers, the     *)
(* literal answer first and correct, then the N distractors in order, not   *)
(* correct and not no-credit; without a choices line the type is short      *)
(* answer and the single answer is the only one.                            *)
C4_AnyChoicesLine ==
    \A k \in 1..Len(calls) :
        LET c == calls[k] IN
        (c.outcome = "parsed" /\ Cardinality(AnswerIdx(c)) = 1)
        => /\ \A m \in WithKey(c, KeyChoices) : OneAnswerWithChoices(c, m)
           /\ WithKey(c, KeyChoices) = {}
                 => /\ c.question.type = "short answer"
                    /\ Len(c.question.answers) = 1
                    /\ LiteralAnswersInLineOrder(c)

(* C4 amended: with exactly one answer line and one or more choices lines,  *)
(* the last of which lists N distractors, the question is multiple choice   *)
(* with N+1 answers, the literal answer first and correct, then those N     *)
(* distractors in order, not correct and not no-credit; without a choices   *)
(* line the type is short answer and the single answer is the only one.     *)
C4_LastChoicesLine ==
    \A k \in 1..Len(calls) :
        LET c == calls[k] IN
        (c.outcome = "parsed" /\ Cardinality(AnswerIdx(c)) = 1)
        => /\ WithKey(c, KeyChoices) # {}
                 => OneAnswerWithChoices(c, LastOf(WithKey(c, KeyChoices)))
           /\ WithKey(c, KeyChoices) = {}
                 => /\ c.question.type = "short answer"
                    /\ Len(c.question.answers) = 1
                    /\ LiteralAnswersInLineOrder(c)

\* one answer and two choices lines that list different distractors
C4_Witness ==
    \E k \in 1..Len(calls) :
        LET c == calls[k] IN
        /\ c.outcome = "parsed"
        /\ Cardinality(AnswerIdx(c)) = 1
        /\ \E m, n \in WithKey(c, KeyChoices) : Fragments(m, "/") # Fragments(n, "/")
        /\ c.question.type = "multiple choice"
        /\ c.question \in Range(questions)

(* C10: after the directive region of a question whose directive lines are  *)
(* all valid, the no-credit set is the union of the trimmed fragments of    *)
(* all nocredit lines, and a literal answer is no-credit iff its text is in *)
(* that union; the distractors and the tags are those of the last choices   *)
(* line and of the last tags line; the ordering flag is the value of the    *)
(* last ordered line.                                                       *)
C10_RepeatedKeys ==
    \A k \in 1..Len(calls) :
        LET c == calls[k]
            union == UNION {Range(Fragments(m, "/")) : m \in WithKey(c, KeyNoCredit)}
        IN
        c.outcome \in {"parsed", "no_record"}
        => /\ c.locals.no_credit = union
           /\ \A n \in 1..Cardinality(AnswerIdx(c)) :
                 c.question.answers[n].no_credit
                    = (strip(At(lines, c.locals.start + n)) \in union)
           /\ c.locals.choices =
                 IF WithKey(c, KeyChoices) = {} THEN <<>>
                 ELSE Fragments(LastOf(WithKey(c, KeyChoices)), "/")
           /\ c.locals.tags =
                 IF WithKey(c, KeyTags) = {} THEN <<>>
                 ELSE Fragments(LastOf(WithKey(c, KeyTags)), ",")
           /\ c.outcome = "parsed" => c.question.tags = c.locals.tags
           /\ c.locals.ordered =
                 (/\ WithKey(c, KeyOrdered) # {}
                  /\ ValueOf(At(lines, LastOf(WithKey(c, KeyOrdered)))) = ValueTrue)

\* two nocredit lines, and an answer that is no-credit by the first of them only
C10_Witness ==
    \E k \in 1..Len(calls) :
        LET c == calls[k] IN
        /\ c.outcome = "parsed"
        /\ Cardinality(WithKey(c, KeyNoCredit)) >= 2
        /\ \E n \in 1..Cardinality(AnswerIdx(c)) :
              /\ c.question.answers[n].no_credit
              /\ c.question.answers[n].text
                    \notin Range(Fragments(LastOf(WithKey(c, KeyNoCredit)), "/"))

----------------------------------------------------------------------------
(* What a reader of the destination file sees *)

\* the rows of the four tables
Rows(d) == <<d.quizzes, d.questions, d.answers, d.tags>>

\* a BOOLEAN column read back
ColumnToBool(v) == v # 0

\* the questions of quiz id read back: the questions rows of the quiz in id
\* order, each with its answers rows and tags rows in insertion order
ReadQuestions(d, id) ==
    LET OfQuiz(r) == r.quiz = id
        rows == SelectSeq(d.questions, OfQuiz)
        AnswersOf(q) ==
            LET OfQuestion(r) == r.question = q.id
                as == SelectSeq(d.answers, OfQuestion)
            IN [k \in 1..Len(as) |->
                   Answer(as[k].text, ColumnToBool(as[k].no_credit),
                          ColumnToBool(as[k].correct))]
        TagsOf(q) ==
            LET OfQuestion(r) == r.question = q.id
                ts == SelectSeq(d.tags, OfQuestion)
            IN [k \in 1..Len(ts) |-> ts[k].name]
    IN [k \in 1..Len(rows) |->
           Question(rows[k].text, rows[k].type, AnswersOf(rows[k]), TagsOf(rows[k]))]

QuizIds(d) == {d.quizzes[k].id : k \in 1..Len(d.quizzes)}

\* the run was ended by a failed INSERT
InsertFailed == pc = "raised" /\ exc = "IntegrityError"

\* the destination was deleted by this run (overwrite, past line 13)
Removed ==
    /\ overwrite
    /\ \/ pc \in {"connect", "insert_quiz", "questions", "answers", "tags", "done"}
       \/ InsertFailed

(* C6 as stated: when an INSERT of the batch fails the run ends without     *)
(* committing and the persisted rows are exactly those committed before the *)
(* run started; before the commit the store never holds part of the quiz.   *)
C6_AbortKeepsEarlierRows ==
    /\ InsertFailed => Rows(disk) = Rows(disk0)
    /\ pc # "done" => Rows(disk) \in {Rows(disk0), Rows(Absent)}

(* C6 amended: when an INSERT of the batch fails the run ends without       *)
(* committing; the persisted rows are then exactly those committed before   *)
(* the run started on a run without overwrite, and none on a run with       *)
(* overwrite, which deleted the destination before the batch; in every      *)
(* state before the commit no row of the batch is persisted.                *)
C6_AllOrNothing ==
    /\ InsertFailed
          => Rows(disk) = IF overwrite THEN Rows(Absent) ELSE Rows(disk0)
    /\ pc # "done"
          => Rows(disk) = IF Removed THEN Rows(Absent) ELSE Rows(disk0)

\* an INSERT failed after a whole question of the quiz was inserted, on an
\* overwrite run over a destination that held rows
C6_Witness ==
    /\ InsertFailed
    /\ qn >= 1
    /\ overwrite
    /\ Rows(disk0) # Rows(Absent)
    /\ Rows(disk) = Rows(Absent)

(* C7: after a successful run the questions of the new quiz read back from  *)
(* the store are, in order, the questions of the parsed Quiz with the same  *)
(* text, type, answers (text, correct, no_credit) and tags, duplicates      *)
(* kept; the new quiz row carries the quiz name under a fresh id, and the   *)
(* quizzes already in the store read back as before the run.                *)
C7_RoundTrip ==
    pc = "done" =>
        LET before == IF overwrite THEN Absent ELSE disk0 IN
        /\ ReadQuestions(disk, quiz_id) = quiz.questions
        /\ quiz_id \notin QuizIds(before)
        /\ \E k \in 1..Len(disk.quizzes) :
              /\ disk.quizzes[k].id = quiz_id
              /\ disk.quizzes[k].name = quiz.name
              /\ \A m \in 1..Len(disk.quizzes) : disk.quizzes[m].id = quiz_id => m = k
        /\ \A id \in QuizIds(before) :
              ReadQuestions(disk, id) = ReadQuestions(before, id)
        /\ Len(disk.questions) = Len(before.questions) + Len(quiz.questions)

\* a quiz of two questions, one with a repeated tag and one with a no-credit
\* answer, copied into a store that already held another quiz
C7_Witness ==
    /\ pc = "done"
    /\ ~overwrite
    /\ QuizIds(disk0) # {}
    /\ Len(quiz.questions) >= 2
    /\ \E k \in 1..Len(quiz.questions) : Len(quiz.questions[k].tags) >= 2
    /\ \E k \in 1..Len(quiz.questions) :
          \E m \in 1..Len(quiz.questions[k].answers) :
             quiz.questions[k].answers[m].no_credit

====
